---- MODULE Spec2Model ----
(***************************************************************************)
(* A model of coati/trainer/strategies/naive.py: the gradient-filter       *)
(* helper get_grad_required_state_dict and the NaiveStrategy methods       *)
(* setup_distributed, _try_init_dist, save_pretrained and                  *)
(* get_model_state_dict_shard.                                             *)
(*                                                                         *)
(* Strings that the code parses or formats are sequences of one-character  *)
(* strings, so that int(...) and the f-string rendering of an int are      *)
(* computed, not assumed.  An environment is a function whose domain is    *)
(* the set of variables that are present (os.environ is a mapping).        *)
(***************************************************************************)
EXTENDS Integers, Sequences, FiniteSets, TLC

VARIABLES
    pc,                 \* position of the running method ("idle": nothing called yet)
    force,              \* _try_init_dist's argument
    env,                \* os.environ at the time of the call
    locals,             \* the local variables _try_init_dist has assigned so far
    exc,                \* the exception in flight inside the try statement
    result,             \* how the method ended: returned, or raised an exception
    calls,              \* the external calls made so far, in order, each with its outcome
    args,               \* save_pretrained's arguments
    model,              \* get_model_state_dict_shard's (unwrapped) model
    config,             \* get_model_state_dict_shard's **config
    state_dict,         \* the selected mapping, a sequence of entries
    accumulate_size,    \* bytes accumulated in the open shard
    state_dict_shard,   \* the open shard
    it,                 \* how many entries the for loop has consumed
    yielded             \* the items the generator has yielded so far

vars == <<pc, force, env, locals, exc, result, calls, args, model, config,
          state_dict, accumulate_size, state_dict_shard, it, yielded>>

distVars == <<force, env, locals, exc>>
saveVars == <<args>>
shardVars == <<model, config, state_dict, accumulate_size, state_dict_shard, it, yielded>>

(***************************************************************************)
(* Bounds of the model.                                                    *)
(***************************************************************************)
MaxEnvValue == 1        \* environment numbers range over 0..MaxEnvValue
MaxParams == 2          \* a model has at most this many parameters
MaxNumel == 1           \* a tensor has at most this many elements
MaxShardSize == 2       \* shard_size ranges over -1..MaxShardSize

(***************************************************************************)
(* Text: Python's int(str) and str(int).                                   *)
(***************************************************************************)
Digits == <<"0", "1", "2", "3", "4", "5", "6", "7", "8", "9">>

IsDigit(c) == \E d \in 1..10 : Digits[d] = c

DigitVal(c) == (CHOOSE d \in 1..10 : Digits[d] = c) - 1

\* str.strip(): int() ignores leading and trailing whitespace.
RECURSIVE Strip(_)
Strip(s) ==
    IF s = <<>> THEN s
    ELSE IF Head(s) = " " THEN Strip(Tail(s))
    ELSE IF s[Len(s)] = " " THEN Strip(SubSeq(s, 1, Len(s) - 1))
    ELSE s

\* The digits part of a stripped literal: what follows an optional sign.
Unsigned(t) == IF t # <<>> /\ Head(t) \in {"+", "-"} THEN Tail(t) ELSE t

\* int(s) succeeds: optional sign, then digits, single underscores between digits.
IsIntText(s) ==
    LET b == Unsigned(Strip(s)) IN
    /\ b # <<>>
    /\ \A i \in 1..Len(b) :
          \/ IsDigit(b[i])
          \/ /\ b[i] = "_"
             /\ 1 < i /\ i < Len(b)
             /\ IsDigit(b[i - 1]) /\ IsDigit(b[i + 1])

RECURSIVE DigitsValue(_, _)
DigitsValue(b, acc) ==
    IF b = <<>> THEN acc
    ELSE IF Head(b) = "_" THEN DigitsValue(Tail(b), acc)
    ELSE DigitsValue(Tail(b), 10 * acc + DigitVal(Head(b)))

\* int(s), for a text that parses.
IntOf(s) ==
    LET t == Strip(s) IN
    IF t # <<>> /\ Head(t) = "-" THEN 0 - DigitsValue(Unsigned(t), 0)
    ELSE DigitsValue(Unsigned(t), 0)

RECURSIVE NatStr(_)
NatStr(n) == IF n < 10 THEN <<Digits[n + 1]>> ELSE NatStr(n \div 10) \o <<Digits[(n % 10) + 1]>>

\* str(n), which is what an f-string field renders for an int.
Str(n) == IF n < 0 THEN <<"-">> \o NatStr(0 - n) ELSE NatStr(n)

(***************************************************************************)
(* The environment.                                                        *)
(***************************************************************************)
EnvNames == {"RANK", "LOCAL_RANK", "WORLD_SIZE", "MASTER_ADDR", "MASTER_PORT"}

\* The values an environment variable takes in the model: canonical decimal
\* numbers, the same with a leading zero, and a text that is no number.
EnvTexts ==
    {Str(n) : n \in 0..MaxEnvValue}
        \cup {<<"0">> \o Str(n) : n \in 0..MaxEnvValue}
        \cup {<<"x">>}

Envs == UNION {[S -> EnvTexts] : S \in SUBSET EnvNames}

(***************************************************************************)
(* Exceptions and results.                                                 *)
(***************************************************************************)
NoExc == [type |-> "None"]

KeyError(k) == [type |-> "KeyError", key |-> k]

ValueError(s) == [type |-> "ValueError", text |-> s]

\* Mutation: the message leaves the key out.
ConfigErrorNoName(e) ==
    [type |-> "RuntimeError", msg |-> <<"Could not find a variable in the torch environment">>]

\* The RuntimeError _try_init_dist builds from a KeyError e: str(e) is repr(key).
ConfigError(e) ==
    [type |-> "RuntimeError",
     msg |-> <<"Could not find ", "'", e.key, "'",
               " in the torch environment, visit https://www.colossalai.org/ for more information on launching with torch">>]

\* What an external call of the communication or device library may raise.
LibraryErrors ==
    {[type |-> "RuntimeError", msg |-> <<"library failure">>],
     KeyError("library key")}

Returned == [kind |-> "returned"]

Raised(e) == [kind |-> "raised", exc |-> e]

NotEnded == [kind |-> "running"]

(***************************************************************************)
(* _try_init_dist and setup_distributed.                                   *)
(***************************************************************************)
\* Mutation: the endpoint without the brackets around the host.
InitMethodNoBrackets(h, p) == <<"t", "c", "p", ":", "/", "/">> \o h \o <<":">> \o Str(p)

\* f'tcp://[{host}]:{port}'
InitMethod(h, p) == <<"t", "c", "p", ":", "/", "/", "[">> \o h \o <<"]", ":">> \o Str(p)

EnterTry(f, e) ==
    /\ pc' = "read_RANK"
    /\ force' = f
    /\ env' = e
    /\ UNCHANGED <<locals, exc, result, calls, saveVars, shardVars>>

\* NaiveStrategy.setup_distributed
CallSetupDistributed ==
    /\ pc = "idle"
    /\ \E e \in Envs : EnterTry(FALSE, e)

\* NaiveStrategy._try_init_dist(force)
CallTryInitDist ==
    /\ pc = "idle"
    /\ \E f \in BOOLEAN, e \in Envs : EnterTry(f, e)

\* x = int(os.environ[name]) inside the try block.
ReadInt(at, name, local, next) ==
    /\ pc = at
    /\ IF name \notin DOMAIN env
          THEN /\ exc' = KeyError(name)
               /\ pc' = "except"
               /\ UNCHANGED locals
       ELSE IF ~IsIntText(env[name])
          THEN /\ exc' = ValueError(env[name])
               /\ pc' = "except"
               /\ UNCHANGED locals
       ELSE /\ locals' = [n \in DOMAIN locals \cup {local} |->
                               IF n = local THEN IntOf(env[name]) ELSE locals[n]]
            /\ pc' = next
            /\ UNCHANGED exc
    /\ UNCHANGED <<force, env, result, calls, saveVars, shardVars>>

ReadRank == ReadInt("read_RANK", "RANK", "rank", "read_LOCAL_RANK")

ReadLocalRank == ReadInt("read_LOCAL_RANK", "LOCAL_RANK", "local_rank", "read_WORLD_SIZE")

ReadWorldSize == ReadInt("read_WORLD_SIZE", "WORLD_SIZE", "world_size", "read_MASTER_ADDR")

\* Mutation: host = os.environ.get('MASTER_ADDR', 'localhost'), which never raises.
ReadMasterAddrDefault ==
    /\ pc = "read_MASTER_ADDR"
    /\ locals' = [n \in DOMAIN locals \cup {"host"} |->
                     IF n # "host" THEN locals[n]
                     ELSE IF "MASTER_ADDR" \in DOMAIN env THEN env["MASTER_ADDR"]
                     ELSE <<"l", "o", "c", "a", "l", "h", "o", "s", "t">>]
    /\ pc' = "read_MASTER_PORT"
    /\ UNCHANGED <<force, env, exc, result, calls, saveVars, shardVars>>

\* host = os.environ['MASTER_ADDR']
ReadMasterAddr ==
    /\ pc = "read_MASTER_ADDR"
    /\ IF "MASTER_ADDR" \notin DOMAIN env
          THEN /\ exc' = KeyError("MASTER_ADDR")
               /\ pc' = "except"
               /\ UNCHANGED locals
       ELSE /\ locals' = [n \in DOMAIN locals \cup {"host"} |->
                               IF n = "host" THEN env["MASTER_ADDR"] ELSE locals[n]]
            /\ pc' = "read_MASTER_PORT"
            /\ UNCHANGED exc
    /\ UNCHANGED <<force, env, result, calls, saveVars, shardVars>>

ReadMasterPort == ReadInt("read_MASTER_PORT", "MASTER_PORT", "port", "init_process_group")

\* The call of line 94 as the log records it; raised: the library raised.
InitCall(r) ==
    [fn |-> "init_process_group",
     backend |-> "nccl",
     init_method |-> InitMethod(locals.host, locals.port),
     world_size |-> locals.world_size,
     rank |-> locals.rank,
     raised |-> r]

\* The call of line 95 as the log records it.
DeviceCall(r) == [fn |-> "set_device", device |-> locals.local_rank, raised |-> r]

\* dist.init_process_group('nccl', init_method=..., world_size=..., rank=...)
InitProcessGroup ==
    /\ pc = "init_process_group"
    /\ \/ /\ calls' = Append(calls, InitCall(FALSE))
          /\ pc' = "set_device"
          /\ UNCHANGED exc
       \/ \E e \in LibraryErrors :
             /\ calls' = Append(calls, InitCall(TRUE))
             /\ exc' = e
             /\ pc' = "except"
    /\ UNCHANGED <<force, env, locals, result, saveVars, shardVars>>

\* torch.cuda.set_device(local_rank)
SetDevice ==
    /\ pc = "set_device"
    /\ \/ /\ calls' = Append(calls, DeviceCall(FALSE))
          /\ pc' = "dist_done"
          /\ result' = Returned
          /\ UNCHANGED exc
       \/ \E e \in LibraryErrors :
             /\ calls' = Append(calls, DeviceCall(TRUE))
             /\ exc' = e
             /\ pc' = "except"
             /\ UNCHANGED result
    /\ UNCHANGED <<force, env, locals, saveVars, shardVars>>

\* Mutation: the handler raises whatever force is.
HandleKeyErrorAlwaysRaises ==
    /\ pc = "except"
    /\ exc.type = "KeyError"
    /\ pc' = "dist_done"
    /\ result' = Raised(ConfigError(exc))
    /\ UNCHANGED <<force, env, locals, exc, calls, saveVars, shardVars>>

\* except KeyError as e: if force: raise RuntimeError(f"Could not find {e} ...")
HandleKeyError ==
    /\ pc = "except"
    /\ exc.type = "KeyError"
    /\ pc' = "dist_done"
    /\ result' = IF force THEN Raised(ConfigError(exc)) ELSE Returned
    /\ UNCHANGED <<force, env, locals, exc, calls, saveVars, shardVars>>

\* except Exception as e: if force: raise e
HandleException ==
    /\ pc = "except"
    /\ exc.type # "KeyError"
    /\ pc' = "dist_done"
    /\ result' = IF force THEN Raised(exc) ELSE Returned
    /\ UNCHANGED <<force, env, locals, exc, calls, saveVars, shardVars>>

(***************************************************************************)
(* save_pretrained.                                                        *)
(***************************************************************************)
None == [type |-> "NoneType"]

\* Strategy.unwrap_model: what the base class returns for a model handed in.
UnwrapModel(m) == m.unwrapped

\* The models a caller hands in: the unwrapped module is or is not a PreTrainedModel.
SaveModels == {[unwrapped |-> [id |-> "module", pretrained |-> b]] : b \in BOOLEAN}

Paths == {"ckpt_a", "ckpt_b"}

Tokenizers == {None, [type |-> "PreTrainedTokenizerBase", id |-> "tokenizer"]}

\* NaiveStrategy.save_pretrained(model, path, only_rank0, tokenizer)
CallSavePretrained ==
    /\ pc = "idle"
    /\ \E m \in SaveModels, p \in Paths, r \in BOOLEAN, t \in Tokenizers :
          args' = [model |-> m, path |-> p, only_rank0 |-> r, tokenizer |-> t]
    /\ pc' = "save_unwrap"
    /\ UNCHANGED <<result, calls, distVars, shardVars>>

\* unwrapped_model = self.unwrap_model(model); assert isinstance(unwrapped_model, PreTrainedModel)
SaveUnwrapAssert ==
    /\ pc = "save_unwrap"
    /\ locals' = [unwrapped_model |-> UnwrapModel(args.model)]
    /\ IF locals'.unwrapped_model.pretrained
          THEN /\ pc' = "save_model"
               /\ UNCHANGED result
          ELSE /\ pc' = "save_done"
               /\ result' = Raised([type |-> "AssertionError"])
    /\ UNCHANGED <<force, env, exc, calls, saveVars, shardVars>>

\* unwrapped_model.save_pretrained(path)
SaveModel ==
    /\ pc = "save_model"
    /\ calls' = Append(calls, [fn |-> "save_pretrained",
                               self |-> locals.unwrapped_model,
                               path |-> args.path])
    /\ pc' = "save_tokenizer"
    /\ UNCHANGED <<result, distVars, saveVars, shardVars>>

\* Mutation: the tokenizer is saved without the None test.
SaveTokenizerAlways ==
    /\ pc = "save_tokenizer"
    /\ calls' = Append(calls, [fn |-> "save_pretrained",
                               self |-> args.tokenizer,
                               path |-> args.path])
    /\ pc' = "save_done"
    /\ result' = Returned
    /\ UNCHANGED <<distVars, saveVars, shardVars>>

\* if tokenizer is not None: tokenizer.save_pretrained(path)
SaveTokenizer ==
    /\ pc = "save_tokenizer"
    /\ calls' = IF args.tokenizer # None
                   THEN Append(calls, [fn |-> "save_pretrained",
                                       self |-> args.tokenizer,
                                       path |-> args.path])
                   ELSE calls
    /\ pc' = "save_done"
    /\ result' = Returned
    /\ UNCHANGED <<distVars, saveVars, shardVars>>

(***************************************************************************)
(* Models, state dicts and get_grad_required_state_dict.                   *)
(***************************************************************************)
\* Bytes per element of the dtypes in the model (int8, float16).
ElementSizes == {1, 2}

ParamShapes == [requires_grad : BOOLEAN, numel : 0..MaxNumel, element_size : ElementSizes]

\* A parameter list: the i-th parameter is named <<"param", i>>.
ParamLists ==
    UNION {{[i \in 1..n |-> [name |-> <<"param", i>>,
                             requires_grad |-> f[i].requires_grad,
                             numel |-> f[i].numel,
                             element_size |-> f[i].element_size]] :
                f \in [1..n -> ParamShapes]} : n \in 0..MaxParams}

\* A module has no buffer, or one persistent buffer.
BufferLists == {<<>>, <<[name |-> <<"buffer", 1>>, numel |-> 1, element_size |-> 1]>>}

ShardModels == {[unwrapped |-> [params |-> ps, buffers |-> bs]] :
                    ps \in ParamLists, bs \in BufferLists}

\* model.named_parameters(): the parameters, in registration order.
NamedParameters(m) == m.params

\* A state-dict entry: a name and its (detached) tensor.
Entry(name, t) == [name |-> name, numel |-> t.numel, element_size |-> t.element_size]

\* OrderedDict.__setitem__: a new key is appended, an old key keeps its place.
OdSet(od, e) ==
    IF \E i \in 1..Len(od) : od[i].name = e.name
       THEN [i \in 1..Len(od) |-> IF od[i].name = e.name THEN e ELSE od[i]]
       ELSE Append(od, e)

\* Mutation: the filter is dropped.
GradRequiredAll(parameter) == TRUE

\* if parameter.requires_grad:
GradRequired(parameter) == parameter.requires_grad

RECURSIVE GradLoop(_, _)
GradLoop(ps, sd) ==
    IF ps = <<>> THEN sd
    ELSE GradLoop(Tail(ps),
                  IF GradRequired(Head(ps)) THEN OdSet(sd, Entry(Head(ps).name, Head(ps)))
                  ELSE sd)

\* get_grad_required_state_dict(model)
GetGradRequiredStateDict(m) == GradLoop(NamedParameters(m), <<>>)

\* model.state_dict(): every parameter, then every persistent buffer.
StateDict(m) ==
    [i \in 1..Len(m.params) |-> Entry(m.params[i].name, m.params[i])]
        \o [i \in 1..Len(m.buffers) |-> Entry(m.buffers[i].name, m.buffers[i])]

(***************************************************************************)
(* get_model_state_dict_shard, a generator.                                *)
(***************************************************************************)
\* Python's v == True: True itself, and the int 1.
EqualsTrue(v) ==
    \/ "bool" \in DOMAIN v /\ v.bool
    \/ "int" \in DOMAIN v /\ v.int = 1

GradOnlyValues == {[bool |-> TRUE], [bool |-> FALSE], [int |-> 1], [int |-> 0]}

ShardSizes == {[int |-> n] : n \in (0 - 1)..MaxShardSize}

Configs ==
    {<<>>}
        \cup {[k \in {"requires_grad_only"} |-> g] : g \in GradOnlyValues}
        \cup {[k \in {"shard_size"} |-> z] : z \in ShardSizes}
        \cup {[k \in {"requires_grad_only", "shard_size"} |->
                  IF k = "shard_size" THEN z ELSE g] : g \in GradOnlyValues, z \in ShardSizes}

\* Mutation: the test of the value is dropped.
GradOnlyKeyPresent(c) == "requires_grad_only" \in DOMAIN c

\* if 'requires_grad_only' in config and config['requires_grad_only'] == True:
GradOnlySelected(c) ==
    "requires_grad_only" \in DOMAIN c /\ EqualsTrue(c["requires_grad_only"])

\* lines 66-69: the mapping the generator works on.
SelectStateDict(m, c) ==
    IF GradOnlySelected(c) THEN GetGradRequiredStateDict(m) ELSE StateDict(m)

\* param.numel() * param.element_size()
NumBytes(param) == param.numel * param.element_size

\* Mutation: a strict comparison.
ShardFullStrict(acc, size) == acc > size

\* if accumulate_size >= shard_size:
ShardFull(acc, size) == acc >= size

\* if accumulate_size > 0: (after the loop)
TailPending(acc) == acc > 0

\* NaiveStrategy.get_model_state_dict_shard(model, **config): the first next().
CallGetModelStateDictShard ==
    /\ pc = "idle"
    /\ \E m \in ShardModels, c \in Configs :
          /\ model' = m
          /\ config' = c
    /\ pc' = "gen_select"
    /\ UNCHANGED <<result, calls, distVars, saveVars,
                   state_dict, accumulate_size, state_dict_shard, it, yielded>>

\* lines 65-74: unwrap, select the mapping, and enter one of the two branches.
GenSelect ==
    /\ pc = "gen_select"
    /\ model' = UnwrapModel(model)
    /\ state_dict' = SelectStateDict(model', config)
    /\ accumulate_size' = 0
    /\ state_dict_shard' = <<>>
    /\ pc' = IF "shard_size" \in DOMAIN config THEN "gen_loop" ELSE "gen_whole"
    /\ UNCHANGED <<result, calls, distVars, saveVars, config, it, yielded>>

\* lines 75-81: one iteration of the for loop.
GenLoop ==
    /\ pc = "gen_loop"
    /\ it < Len(state_dict)
    /\ LET param == state_dict[it + 1]
           shard == OdSet(state_dict_shard, param)
           acc == accumulate_size + NumBytes(param)
       IN IF ShardFull(acc, config["shard_size"].int)
             THEN /\ accumulate_size' = 0
                  /\ yielded' = Append(yielded, shard)
                  /\ state_dict_shard' = <<>>
             ELSE /\ accumulate_size' = acc
                  /\ state_dict_shard' = shard
                  /\ UNCHANGED yielded
    /\ it' = it + 1
    /\ UNCHANGED <<pc, result, calls, distVars, saveVars, model, config, state_dict>>

\* lines 82-83: the loop is exhausted; the open shard is yielded if it has bytes.
GenLoopEnd ==
    /\ pc = "gen_loop"
    /\ it = Len(state_dict)
    /\ yielded' = IF TailPending(accumulate_size)
                     THEN Append(yielded, state_dict_shard)
                     ELSE yielded
    /\ pc' = "gen_done"
    /\ result' = Returned
    /\ UNCHANGED <<calls, distVars, saveVars, model, config, state_dict,
                   accumulate_size, state_dict_shard, it>>

\* line 85: yield state_dict, then the generator is exhausted.
GenWhole ==
    /\ pc = "gen_whole"
    /\ yielded' = Append(yielded, state_dict)
    /\ pc' = "gen_done"
    /\ result' = Returned
    /\ UNCHANGED <<calls, distVars, saveVars, model, config, state_dict,
                   accumulate_size, state_dict_shard, it>>

Init ==
    /\ pc = "idle"
    /\ force = FALSE
    /\ env = <<>>
    /\ locals = <<>>
    /\ exc = NoExc
    /\ result = NotEnded
    /\ calls = <<>>
    /\ args = <<>>
    /\ model = <<>>
    /\ config = <<>>
    /\ state_dict = <<>>
    /\ accumulate_size = 0
    /\ state_dict_shard = <<>>
    /\ it = 0
    /\ yielded = <<>>

Next ==
    \/ CallSetupDistributed
    \/ CallTryInitDist
    \/ ReadRank
    \/ ReadLocalRank
    \/ ReadWorldSize
    \/ ReadMasterAddr
    \/ ReadMasterPort
    \/ InitProcessGroup
    \/ SetDevice
    \/ HandleKeyError
    \/ HandleException
    \/ CallSavePretrained
    \/ SaveUnwrapAssert
    \/ SaveModel
    \/ SaveTokenizer
    \/ CallGetModelStateDictShard
    \/ GenSelect
    \/ GenLoop
    \/ GenLoopEnd
    \/ GenWhole

Spec == Init /\ [][Next]_vars

(***************************************************************************)
(* Properties of _try_init_dist and setup_distributed.                     *)
(***************************************************************************)
ReadOrder == <<"RANK", "LOCAL_RANK", "WORLD_SIZE", "MASTER_ADDR", "MASTER_PORT">>

NumericNames == {"RANK", "LOCAL_RANK", "WORLD_SIZE", "MASTER_PORT"}

InDist ==
    pc \in {"read_RANK", "read_LOCAL_RANK", "read_WORLD_SIZE", "read_MASTER_ADDR",
            "read_MASTER_PORT", "init_process_group", "set_device", "except", "dist_done"}

Missing == EnvNames \ DOMAIN env

AllPresent == Missing = {}

AllParse == \A n \in NumericNames \cap DOMAIN env : IsIntText(env[n])

\* The position in the read order of the first variable that is missing.
FirstMissingAt == CHOOSE i \in 1..5 :
    /\ ReadOrder[i] \in Missing
    /\ \A j \in 1..(i - 1) : ReadOrder[j] \notin Missing

\* Every numeric variable read before the first missing one parses.
EarlierParse ==
    \A j \in 1..(FirstMissingAt - 1) :
        ReadOrder[j] \in NumericNames => IsIntText(env[ReadOrder[j]])

\* The message of exception e contains the name v.
Names(e, v) == "msg" \in DOMAIN e /\ \E i \in 1..Len(e.msg) : e.msg[i] = v

CallsOf(fn) == {i \in 1..Len(calls) : calls[i].fn = fn}

EndpointPrefix == <<"t", "c", "p", ":", "/", "/", "[">>

\* C2, as stated: with all five variables present and the numeric ones
\* parsing, init_process_group is called exactly once with init_method
\* 'tcp://[' + MASTER_ADDR + ']:' + MASTER_PORT (the variable's text), with
\* world_size and rank the values of WORLD_SIZE and RANK, and then (once the
\* call has returned) the device LOCAL_RANK is selected.
C2_EndpointIsEnvText ==
    (pc = "dist_done" /\ AllPresent /\ AllParse) =>
        /\ Cardinality(CallsOf("init_process_group")) = 1
        /\ calls[1].fn = "init_process_group"
        /\ calls[1].init_method =
              EndpointPrefix \o env["MASTER_ADDR"] \o <<"]", ":">> \o env["MASTER_PORT"]
        /\ calls[1].world_size = IntOf(env["WORLD_SIZE"])
        /\ calls[1].rank = IntOf(env["RANK"])
        /\ ~calls[1].raised =>
              /\ Len(calls) = 2
              /\ calls[2].fn = "set_device"
              /\ calls[2].device = IntOf(env["LOCAL_RANK"])

\* C2, amended: init_process_group is called exactly once, with init_method
\* 'tcp://[' + MASTER_ADDR + ']:' + the decimal rendering of int(MASTER_PORT)
\* (the variable's text only when that text is canonical), world_size
\* int(WORLD_SIZE) and rank int(RANK); the device int(LOCAL_RANK) is selected
\* next exactly when init_process_group returned without raising.
C2_EndpointIsRenderedPort ==
    (pc = "dist_done" /\ AllPresent /\ AllParse) =>
        /\ Cardinality(CallsOf("init_process_group")) = 1
        /\ calls[1].fn = "init_process_group"
        /\ calls[1].init_method =
              EndpointPrefix \o env["MASTER_ADDR"] \o <<"]", ":">>
                  \o Str(IntOf(env["MASTER_PORT"]))
        /\ (env["MASTER_PORT"] = Str(IntOf(env["MASTER_PORT"])) =>
              calls[1].init_method =
                  EndpointPrefix \o env["MASTER_ADDR"] \o <<"]", ":">> \o env["MASTER_PORT"])
        /\ calls[1].world_size = IntOf(env["WORLD_SIZE"])
        /\ calls[1].rank = IntOf(env["RANK"])
        /\ IF calls[1].raised
              THEN Len(calls) = 1
              ELSE /\ Len(calls) = 2
                   /\ calls[2].fn = "set_device"
                   /\ calls[2].device = IntOf(env["LOCAL_RANK"])

\* A run with a port written with a leading zero that initialised and selected.
C2_Witness ==
    /\ pc = "dist_done"
    /\ AllPresent /\ AllParse
    /\ env["MASTER_PORT"] = <<"0", "1">>
    /\ Len(calls) = 2
    /\ result = Returned

\* C3: with any variable missing and force false, the method never raises:
\* it ends by returning normally.
C3_MissingNotForcedReturns ==
    (InDist /\ Missing # {} /\ ~force) =>
        /\ result.kind # "raised"
        /\ pc = "dist_done" => result = Returned

\* A run that swallowed the KeyError of a missing variable.
C3_Witness ==
    /\ pc = "dist_done"
    /\ Missing # {}
    /\ ~force
    /\ exc.type = "KeyError"
    /\ result = Returned

\* What C4 promises of a forced run that ended: a RuntimeError that names the
\* first missing variable and no variable that is present.
RaisedConfigErrorForFirstMissing ==
    /\ result.kind = "raised"
    /\ result.exc.type = "RuntimeError"
    /\ Names(result.exc, ReadOrder[FirstMissingAt])
    /\ \A v \in DOMAIN env : ~Names(result.exc, v)

\* C4, as stated: for every non-empty set of missing variables, force true
\* raises a RuntimeError naming the first missing variable in the read order.
C4_ForcedAlwaysConfigError ==
    (pc = "dist_done" /\ Missing # {} /\ force) => RaisedConfigErrorForFirstMissing

\* C4, amended: the same, provided every numeric variable that is read before
\* the first missing one parses as an integer.
C4_ForcedConfigErrorWhenEarlierParse ==
    (pc = "dist_done" /\ Missing # {} /\ force /\ EarlierParse) =>
        RaisedConfigErrorForFirstMissing

\* A forced run with two variables missing that named the first of them.
C4_Witness ==
    /\ pc = "dist_done"
    /\ force
    /\ Cardinality(Missing) >= 2
    /\ "RANK" \in DOMAIN env
    /\ RaisedConfigErrorForFirstMissing

\* The exception in flight is the KeyError of a missing environment variable.
MissingVariableError == exc.type = "KeyError" /\ exc.key \in Missing

\* C5: a failure that is not a missing variable is swallowed when force is
\* false and re-raised unchanged when force is true.
C5_OtherFailureUnchanged ==
    (pc = "dist_done" /\ exc # NoExc /\ ~MissingVariableError) =>
        result = IF force THEN Raised(exc) ELSE Returned

\* C7: init_process_group is called only after all five variables were read
\* and the numeric ones parsed; the device is selected only after
\* init_process_group returned without error; with a variable missing or
\* unparsable no external call is made at all.
C7_InitOrder ==
    /\ \A i \in CallsOf("init_process_group") :
          /\ i = 1
          /\ AllPresent /\ AllParse
          /\ DOMAIN locals = {"rank", "local_rank", "world_size", "host", "port"}
          /\ pc \in {"set_device", "except", "dist_done"}
    /\ \A i \in CallsOf("set_device") :
          /\ i = 2
          /\ calls[1].fn = "init_process_group"
          /\ ~calls[1].raised
    /\ (InDist /\ ~(AllPresent /\ AllParse)) => calls = <<>>
    /\ (InDist /\ Len(calls) >= 1 /\ calls[1].raised) => Len(calls) = 1

\* A run in which init_process_group raised and the device was not selected.
C7_Witness ==
    /\ pc = "dist_done"
    /\ Len(calls) = 1
    /\ calls[1].fn = "init_process_group"
    /\ calls[1].raised

(***************************************************************************)
(* Properties of save_pretrained.                                          *)
(***************************************************************************)
InSave == pc \in {"save_unwrap", "save_model", "save_tokenizer", "save_done"}

SaveCall(obj) == [fn |-> "save_pretrained", self |-> obj, path |-> args.path]

\* C6: the unwrapped model is serialized to path exactly once; the tokenizer
\* is serialized to the same path, after the model, exactly when one is
\* supplied; when the unwrapped model is no PreTrainedModel the assertion
\* fails and nothing is ever written.  only_rank0 plays no part.
C6_SaveOrder ==
    InSave =>
        IF args.model.unwrapped.pretrained
           THEN /\ result.kind # "raised"
                /\ pc = "save_tokenizer" => calls = <<SaveCall(args.model.unwrapped)>>
                /\ pc = "save_done" =>
                      /\ result = Returned
                      /\ calls = IF args.tokenizer = None
                                    THEN <<SaveCall(args.model.unwrapped)>>
                                    ELSE <<SaveCall(args.model.unwrapped),
                                           SaveCall(args.tokenizer)>>
           ELSE /\ calls = <<>>
                /\ pc \in {"save_unwrap", "save_done"}
                /\ pc = "save_done" => result = Raised([type |-> "AssertionError"])

\* A call with a tokenizer and only_rank0 false that wrote the model, then the tokenizer.
C6_Witness ==
    /\ pc = "save_done"
    /\ ~args.only_rank0
    /\ args.tokenizer # None
    /\ Len(calls) = 2
    /\ calls[1].self = args.model.unwrapped
    /\ calls[2].self = args.tokenizer

(***************************************************************************)
(* Properties of get_grad_required_state_dict and                          *)
(* get_model_state_dict_shard.                                             *)
(***************************************************************************)
\* The generator is past the selection of lines 65-69: model is unwrapped.
Selected == pc \in {"gen_loop", "gen_whole", "gen_done"}

HasShardSize == "shard_size" \in DOMAIN config

\* The position of name n among the named parameters.
ParamIndex(n) == CHOOSE j \in 1..Len(model.params) : model.params[j].name = n

\* The values the code takes for True: True, and what Python holds equal to it.
TrueValues == {[bool |-> TRUE], [int |-> 1]}

WantsGradOnly ==
    "requires_grad_only" \in DOMAIN config /\ config["requires_grad_only"] \in TrueValues

\* C1: the keys of get_grad_required_state_dict(model) are exactly the names
\* of the parameters with requires_grad set, once each, in the order of
\* named_parameters().
C1_GradKeys ==
    (Selected /\ WantsGradOnly) =>
        /\ {state_dict[i].name : i \in 1..Len(state_dict)} =
              {model.params[j].name :
                  j \in {k \in 1..Len(model.params) : model.params[k].requires_grad}}
        /\ \A i, j \in 1..Len(state_dict) :
              i < j => ParamIndex(state_dict[i].name) < ParamIndex(state_dict[j].name)

\* A model with a frozen parameter before a trainable one: the helper kept the second only.
C1_Witness ==
    /\ Selected /\ WantsGradOnly
    /\ Len(model.params) = 2
    /\ ~model.params[1].requires_grad
    /\ model.params[2].requires_grad
    /\ Len(state_dict) = 1

RECURSIVE SumBytes(_)
SumBytes(sh) == IF sh = <<>> THEN 0 ELSE Head(sh).numel * Head(sh).element_size + SumBytes(Tail(sh))

BytesBeforeLast(sh) == SumBytes(SubSeq(sh, 1, Len(sh) - 1))

RECURSIVE Concat(_)
Concat(shards) == IF shards = <<>> THEN <<>> ELSE Head(shards) \o Concat(Tail(shards))

ShardSizeValue == config["shard_size"].int

\* C8, as stated: with shard_size given, every yielded shard is non-empty,
\* every one but the last holds at least shard_size bytes, and in every one
\* the entries before its last hold fewer than shard_size bytes.
C8_ThresholdFlush ==
    (Selected /\ HasShardSize) =>
        \A i \in 1..Len(yielded) :
            /\ yielded[i] # <<>>
            /\ i < Len(yielded) => SumBytes(yielded[i]) >= ShardSizeValue
            /\ BytesBeforeLast(yielded[i]) < ShardSizeValue

\* C8, amended: every yielded shard is non-empty and every one but the last
\* holds at least shard_size bytes; when shard_size > 0 the entries before a
\* shard's last hold fewer than shard_size bytes, and when shard_size <= 0
\* every yielded shard holds exactly one entry.
C8_ThresholdFlushPositive ==
    (Selected /\ HasShardSize) =>
        \A i \in 1..Len(yielded) :
            /\ yielded[i] # <<>>
            /\ i < Len(yielded) => SumBytes(yielded[i]) >= ShardSizeValue
            /\ ShardSizeValue > 0 => BytesBeforeLast(yielded[i]) < ShardSizeValue
            /\ ShardSizeValue <= 0 => Len(yielded[i]) = 1

\* A finished run that closed a shard of two entries at the threshold and
\* yielded a smaller last shard.
C8_Witness ==
    /\ pc = "gen_done"
    /\ HasShardSize
    /\ Len(yielded) = 2
    /\ Len(yielded[1]) = 2
    /\ SumBytes(yielded[1]) >= ShardSizeValue
    /\ SumBytes(yielded[2]) < ShardSizeValue

\* C9: with shard_size given, the yielded shards, concatenated in yield
\* order, are the selected state dict: every entry in exactly one shard, in
\* the original order, and nothing else.
C9_ShardsPartition ==
    (pc = "gen_done" /\ HasShardSize) => Concat(yielded) = state_dict

\* The mapping C10 expects: the entries of the parameters with requires_grad
\* when requires_grad_only equals True, else parameters and buffers.
ExpectedSelection ==
    LET isGrad(p) == p.requires_grad
        entries(ts) == [i \in 1..Len(ts) |->
                           [name |-> ts[i].name, numel |-> ts[i].numel,
                            element_size |-> ts[i].element_size]]
    IN IF WantsGradOnly THEN entries(SelectSeq(model.params, isGrad))
       ELSE entries(model.params) \o entries(model.buffers)

\* C10: without shard_size the generator yields exactly once, the whole
\* selected mapping, and ends; the mapping is the gradient-required subset
\* when requires_grad_only equals True and the full state dict otherwise,
\* and the same mapping is the one sharded when shard_size is given.
C10_WholeSelection ==
    /\ Selected => state_dict = ExpectedSelection
    /\ (Selected /\ ~HasShardSize) => Len(yielded) <= 1
    /\ (pc = "gen_done" /\ ~HasShardSize) =>
          /\ yielded = <<ExpectedSelection>>
          /\ result = Returned

\* A finished run without shard_size, with requires_grad_only False on a
\* model with a frozen parameter and a buffer: the one item yielded is the
\* full state dict.
C10_Witness ==
    /\ pc = "gen_done"
    /\ ~HasShardSize
    /\ "requires_grad_only" \in DOMAIN config
    /\ config["requires_grad_only"] = [bool |-> FALSE]
    /\ \E j \in 1..Len(model.params) : ~model.params[j].requires_grad
    /\ model.buffers # <<>>
    /\ Len(yielded) = 1
    /\ Len(yielded[1]) = Len(model.params) + Len(model.buffers)
====
